---- MODULE Spec2Model ----
(***************************************************************************)
(* Functions emulator gateway (src/src/emulator/functionsEmulator.ts).     *)
(*                                                                         *)
(* The state machines of this module:                                      *)
(*   - the invocation of one trigger: the express handler of start(), the  *)
(*     Runtime built by InvokeRuntime, the worker it spawned (a black box  *)
(*     that writes log lines on two pipes, serves one HTTP exchange on its *)
(*     IPC socket and exits), and the outbound response;                   *)
(*   - the trigger loader of connect(): loadTriggers, the debounced        *)
(*     reload and the firestore registrar (SpecReload; SpecDebounce is the *)
(*     watcher, the debounce timer and the spawns alone, SpecRegister the  *)
(*     loader with registrations that are answered well);                  *)
(*   - one Runtime of InvokeRuntime on its own, pipe by pipe, with         *)
(*     listeners that do not throw and calls of kill() (SpecRuntime), and  *)
(*     its spawn under any environments (SpecSpawn).                       *)
(*                                                                         *)
(* One action is one turn of the node event loop (one callback, run to     *)
(* completion).  The continuation of an await whose promise is settled is  *)
(* a microtask: it runs before any further I/O callback, so every I/O      *)
(* action is guarded by ~MicrotaskPending.                                 *)
(***************************************************************************)
EXTENDS Integers, Sequences, FiniteSets, TLC

\* ------------------------------------------------------------- bounds
\* Longest inbound request body, in characters.
MaxBodyLen == 2
\* Most log lines one worker writes (both pipes together).
MaxLines == 3
\* Most symbols in one pipe chunk delivered to a "data" callback.
MaxChunk == 2
\* Most runs of loadTriggers (the load of connect() and the reloads).
MaxLoads == 2
\* Most trigger definitions a diagnostic worker reports.
MaxDefs == 2
\* Most "change" events the watcher delivers.
MaxChanges == 5
\* Most stream symbols the worker of a bare Runtime writes (both pipes).
MaxStream == 4
\* Most calls of a Runtime's kill().
MaxKillCalls == 2

\* wait of _.debounce(loadTriggers, 1000), in ticks of a quarter second.
DebounceWait == 4

\* ---------------------------------------------------------- vocabulary
Pipes == {"stdout", "stderr"}

\* Characters of request bodies: "1" is a JSON digit, "h" a letter (the
\* bytes hello of scenario S1), "{" and "}" the braces of an empty object.
Chars == {"h", "1", "{", "}"}

RECURSIVE SeqsUpTo(_, _)
SeqsUpTo(S, n) ==
  IF n = 0 THEN {<<>>}
  ELSE LET shorter == SeqsUpTo(S, n - 1)
       IN shorter \cup {Append(s, c) : s \in {t \in shorter : Len(t) = n - 1}, c \in S}

Bodies == SeqsUpTo(Chars, MaxBodyLen)

\* The trigger map a worker reports in data.triggers of its triggers-parsed
\* record: name -> kind of definition.  "ghost" is a name no worker knows.
TriggerNames == {"echo", "onWrite", "onAuth"}
RequestNames == TriggerNames \cup {"ghost"}
SocketPaths == {"/tmp/w1.sock", "/tmp/w2.sock"}
ExitCodes == {0, 1}
\* Status codes of a worker's response; 0 stands for a missing statusCode.
WorkerStatusCodes == {0, 200, 404}
WorkerHeaders == {"content-type"}

\* --------------------------------------------------------------- JSON
\* JSON.parse on texts over Chars: a run of digits is a number, the two
\* braces are the empty object, anything else is a SyntaxError.
IsDigits(s) == Len(s) >= 1 /\ \A i \in 1..Len(s) : s[i] = "1"

RECURSIVE DigitsValue(_)
DigitsValue(s) == IF s = <<>> THEN 0 ELSE 10 * DigitsValue(SubSeq(s, 1, Len(s) - 1)) + 1

JsonParse(s) ==
  IF IsDigits(s) THEN [ok |-> TRUE, kind |-> "number", num |-> DigitsValue(s)]
  ELSE IF s = <<"{", "}">> THEN [ok |-> TRUE, kind |-> "object", num |-> 0]
  ELSE [ok |-> FALSE, kind |-> "SyntaxError", num |-> 0]

\* proto of the handler: undefined for an empty body, else JSON.parse of it.
NoProto == [ok |-> TRUE, kind |-> "undefined", num |-> 0]
ParseProto(reqBody) == IF reqBody = <<>> THEN NoProto ELSE JsonParse(reqBody)

\* -------------------------------------------------------- log records
\* One symbol of a pipe's byte stream: the newline byte, or the complete
\* JSON text of one record (the bytes of a line without its newline).
LogRec(level, type, text, sock) ==
  [level |-> level, type |-> type, text |-> text, sock |-> sock]
NL == LogRec("\n", "", "", "")
ReadyRec(sock) == LogRec("SYSTEM", "runtime-status", "ready", sock)
ParsedRec == LogRec("SYSTEM", "triggers-parsed", "", "")
FatalRec == LogRec("FATAL", "", "boom", "")
KilledRec == LogRec("SYSTEM", "runtime-status", "killed", "")
ParseErrorRec == LogRec("SYSTEM", "runtime-parse-error", "", "")

\* The record texts a worker writes.
WorkerTexts == {ReadyRec(s) : s \in SocketPaths} \cup {ParsedRec, FatalRec}

\* EmulatorLog.fromJSON(line): a line holding one record text is that
\* record; any other line (empty, or texts run together) does not parse.
FromJSON(line) == IF Len(line) = 1 THEN line[1] ELSE ParseErrorRec

\* value.split("\n"): the pieces between newlines, at least one piece.
RECURSIVE SplitLines(_)
SplitLines(value) ==
  IF \A i \in 1..Len(value) : value[i] # NL THEN <<value>>
  ELSE LET k == CHOOSE i \in 1..Len(value) :
                  value[i] = NL /\ \A j \in 1..(i - 1) : value[j] # NL
       IN <<SubSeq(value, 1, k - 1)>> \o SplitLines(SubSeq(value, k + 1, Len(value)))

\* A slice that keeps the last piece too.
KeepAllLines(lines) == lines

\* lines.slice(0, -1)
AllButLast(lines) == SubSeq(lines, 1, Len(lines) - 1)

\* waitForLog's listener test: level and type match and the filter accepts.
LevelTypeMatch(el, level, type) == el.level = level /\ el.type = type
ReadyFilter(el) == el.text = "ready"

\* -------------------------------------------------- outbound response
\* The express response of one request.  statusCode is the property set by
\* res.status; wireStatus is the status that went out with the headers.
NewResponse ==
  [statusCode |-> 200, headersSent |-> FALSE, wireStatus |-> 0,
   headers |-> {}, headerCopies |-> 0, body |-> <<>>, ended |-> FALSE, ends |-> 0]

AckBody == <<"acknowledged">>

\* res.status(code)
ResStatus(r, code) == [r EXCEPT !.statusCode = code]

\* res.end(): flushes the headers and ends; a no-op on an ended response.
ResEnd(r) ==
  IF r.ended THEN r
  ELSE [r EXCEPT !.headersSent = TRUE,
                 !.wireStatus = IF r.headersSent THEN r.wireStatus ELSE r.statusCode,
                 !.ended = TRUE, !.ends = r.ends + 1]

\* res.write(buf) on a response that has not ended.
ResWrite(r, buf) ==
  [r EXCEPT !.headersSent = TRUE,
            !.wireStatus = IF r.headersSent THEN r.wireStatus ELSE r.statusCode,
            !.body = r.body \o buf]

\* res.send(text) / res.json(obj) on a response whose headers are not sent:
\* content headers are set, the text is the body and the response ends.
ResSend(r, text) ==
  [r EXCEPT !.headersSent = TRUE, !.wireStatus = r.statusCode,
            !.body = r.body \o text, !.ended = TRUE, !.ends = r.ends + 1]

\* A forwardStatusAndHeaders without the headersSent test.
ForwardStatusAndHeadersUnguarded(r, statusCode, hdrs) ==
  LET r1 == ResStatus(r, IF statusCode # 0 THEN statusCode ELSE 200)
  IN [r1 EXCEPT !.headers = r1.headers \cup hdrs, !.headerCopies = r1.headerCopies + 1]

\* forwardStatusAndHeaders of the runtimeRes callback.
ForwardStatusAndHeaders(r, statusCode, hdrs) ==
  LET r1 == ResStatus(r, IF statusCode # 0 THEN statusCode ELSE 200)
  IN IF ~r1.headersSent
     THEN [r1 EXCEPT !.headers = r1.headers \cup hdrs, !.headerCopies = r1.headerCopies + 1]
     ELSE r1

\* ---------------------------------------------------------------- state
VARIABLES
  \* --- one invocation (handler of start(), lines 155-269)
  hpc,          \* where the handler is: idle, awaitReady, awaitTriggerLog,
                \* awaitExitAck, awaitExitHttp, returned, rejected
  reqName,      \* req.params.trigger_name
  reqBody,      \* rawBody, buffered by the body middleware
  bundle,       \* the FunctionsRuntimeBundle handed to the worker
  invokeMetric, \* tag passed to track(EVENT_INVOKE, ...); "" before
  wstate,       \* worker process: none, running, exited
  spawnCount,   \* workers spawned for the request
  nWritten,     \* log lines the worker has started writing
  buffers,      \* buffers[pipe].value of InvokeRuntime
  events,       \* every record emitted on the Runtime's emitter, in order
  rt,           \* the Runtime handle: the ready and triggers-parsed waiters,
                \* metadata.socketPath, the exit promise, kill signals sent
  ipc,          \* the http.request over the worker's socket
  res,          \* the outbound response
  gwCrashed,    \* an exception escaped an event callback
  \* --- the trigger loader (connect(), lines 410-540)
  triggers,        \* this.triggers
  knownTriggerIDs, \* names n with this.knownTriggerIDs[n] = true
  connected,       \* connect() ran: the watcher is installed
  timerPending,    \* the debounce timer of debouncedLoadTriggers is armed
  nLoads,          \* runs of loadTriggers started
  loads,           \* per run: where it is, its toSetup list, its loop index
  diag,            \* per run: its diagnostic worker (none, running, exited)
  firestorePort,   \* EmulatorRegistry.getPort(FIRESTORE) is set
  setupLog,        \* what the runs did for each trigger, in order
  assigns,         \* per name: times line 482 set knownTriggerIDs[name]
  sinceChange,     \* ticks since the last "change" event, up to DebounceWait
  timerLeft,       \* ticks until the timer of the debounce expires
  nChanges,        \* "change" events delivered
  nBursts,         \* "change" events that came DebounceWait or later after
                   \* the one before (or first of all)
  spawnLog,        \* per diagnostic worker spawned: who spawned it, and
                   \* sinceChange at that moment
  \* --- one Runtime of InvokeRuntime, pipe by pipe (lines 674-746)
  rtProc,          \* its worker process: none, running, exited
  rtBuffers,       \* buffers[pipe].value
  rtWritten,       \* per pipe: everything its "data" callback was given
  rtLog,           \* every record emitted on the emitter, in order, with
                   \* where it came from and the line it was parsed from
  rtWaiters,       \* the ready and the triggers-parsed waiters
  rtSignals,       \* signals sent to the worker
  rtKillCalls,     \* calls of the handle's kill()
  processEnv,      \* process.env of the gateway
  optsEnv,         \* opts.env of the call (no key when opts has no env)
  workerEnv        \* the env option given to spawn (no key before the call)

invokeVars == <<hpc, reqName, reqBody, bundle, invokeMetric, wstate, spawnCount,
                nWritten, buffers, events, rt, ipc, res, gwCrashed>>

debounceVars == <<sinceChange, timerLeft, nChanges, nBursts>>

loadVars == <<triggers, knownTriggerIDs, connected, timerPending, nLoads, loads,
              diag, firestorePort, setupLog, assigns, debounceVars, spawnLog>>

runtimeVars == <<rtProc, rtBuffers, rtWritten, rtLog, rtWaiters, rtSignals, rtKillCalls,
                 processEnv, optsEnv, workerEnv>>

vars == <<invokeVars, loadVars, runtimeVars>>

\* data.triggers of the triggers-parsed record: name -> definition.
TriggerMap ==
  [n \in TriggerNames |->
     IF n = "echo" THEN [httpsTrigger |-> TRUE, service |-> ""]
     ELSE IF n = "onWrite" THEN [httpsTrigger |-> FALSE, service |-> "firestore"]
     ELSE [httpsTrigger |-> FALSE, service |-> "firebase.auth"]]

\* SUPPORTED_SERVICES (line 33) and isTriggerSupported (lines 63-70).
SupportedServices == {"firestore"}
IsTriggerSupported(definition) ==
  definition.httpsTrigger \/ definition.service \in SupportedServices

\* Environments: a value for some of the keys.
EnvKeys == {"node", "PATH"}
EnvValues == {"ambient", "override"}
Envs == UNION {[K -> EnvValues] : K \in SUBSET EnvKeys}
NoEnv == [k \in {} |-> ""]
NodeBinary == "/usr/bin/node"

\* Object spread { ...a, ...b }: the keys of both, b's value where both
\* have the key.
Spread(a, b) ==
  [k \in DOMAIN a \cup DOMAIN b |-> IF k \in DOMAIN b THEN b[k] ELSE a[k]]

\* Line 691: { node: nodeBinary, ...opts.env, ...process.env }
SpawnEnv(nodeBinary, optEnv, procEnv) ==
  Spread(Spread([k \in {"node"} |-> nodeBinary], optEnv), procEnv)

NewRuntime ==
  [readyIdx |-> 0, parsedIdx |-> 0, socketPath |-> "", exited |-> FALSE,
   exitCode |-> 0, kills |-> 0]

NoIpc == [state |-> "none", socketPath |-> "", sent |-> <<>>, writes |-> 0,
          reqEnded |-> FALSE, status |-> 0, respPos |-> 0]

InitInvoke ==
  /\ hpc = "idle"
  /\ reqName = ""
  /\ reqBody = <<>>
  /\ bundle = [triggerId |-> "", proto |-> NoProto]
  /\ invokeMetric = ""
  /\ wstate = "none"
  /\ spawnCount = 0
  /\ nWritten = 0
  /\ buffers = [p \in Pipes |-> <<>>]
  /\ events = <<>>
  /\ rt = NewRuntime
  /\ ipc = NoIpc
  /\ res = NewResponse
  /\ gwCrashed = FALSE

Loads == 1..MaxLoads
IdleLoad == [pc |-> "unused", toSetup |-> <<>>, idx |-> 0, before |-> <<>>, port |-> FALSE]

InitLoad ==
  /\ triggers = <<>>
  /\ knownTriggerIDs = {}
  /\ connected = FALSE
  /\ timerPending = FALSE
  /\ nLoads = 0
  /\ loads = [i \in Loads |-> IdleLoad]
  /\ diag = [i \in Loads |-> "none"]
  /\ firestorePort = FALSE
  /\ setupLog = <<>>
  /\ assigns = [n \in TriggerNames |-> 0]
  /\ sinceChange = DebounceWait
  /\ timerLeft = 0
  /\ nChanges = 0
  /\ nBursts = 0
  /\ spawnLog = <<>>

InitRuntime ==
  /\ rtProc = "none"
  /\ rtBuffers = [p \in Pipes |-> <<>>]
  /\ rtWritten = [p \in Pipes |-> <<>>]
  /\ rtLog = <<>>
  /\ rtWaiters = [readyIdx |-> 0, parsedIdx |-> 0]
  /\ rtSignals = 0
  /\ rtKillCalls = 0
  /\ workerEnv = NoEnv

\* The callers of this file pass no opts (lines 289, 436).
InitEnv ==
  /\ processEnv = [k \in {"PATH"} |-> "ambient"]
  /\ optsEnv = NoEnv

Init == InitInvoke /\ InitLoad /\ InitRuntime /\ InitEnv

\* ------------------------------------------------ the Runtime's emitter
\* The state the "log" listeners act on.
EmitState == [events |-> events, rt |-> rt, res |-> res, crashed |-> FALSE]

\* A ready waiter that takes the socket path of every ready record.
ReadyWaiterEveryRecord(st, el, idx) ==
  IF LevelTypeMatch(el, "SYSTEM", "runtime-status") /\ ReadyFilter(el)
  THEN [st EXCEPT !.rt.readyIdx = IF st.rt.readyIdx = 0 THEN idx ELSE st.rt.readyIdx,
                  !.rt.socketPath = el.sock]
  ELSE st

\* Listener of waitForLog(emitter, "SYSTEM", "runtime-status", text = ready)
\* and its .then: the first match resolves the promise, a later resolve is
\* ignored; metadata.socketPath is set from the record that resolved it.
ReadyWaiter(st, el, idx) ==
  IF LevelTypeMatch(el, "SYSTEM", "runtime-status") /\ ReadyFilter(el) /\ st.rt.readyIdx = 0
  THEN [st EXCEPT !.rt.readyIdx = idx, !.rt.socketPath = el.sock]
  ELSE st

\* Listener of the handler: a FATAL record is sent as the reply.  res.send
\* sets headers first, which throws once the headers have been sent.
FatalSubscriber(st, el) ==
  IF el.level # "FATAL" THEN st
  ELSE IF st.res.headersSent THEN [st EXCEPT !.crashed = TRUE]
  ELSE [st EXCEPT !.res = ResSend(st.res, <<el.text>>)]

\* A triggers-parsed waiter that is attached after the await of ready.
TriggerLogWaiterAttachedLate(st, el, idx) ==
  IF hpc # "awaitReady" /\ LevelTypeMatch(el, "SYSTEM", "triggers-parsed") /\ st.rt.parsedIdx = 0
  THEN [st EXCEPT !.rt.parsedIdx = idx]
  ELSE st

\* Listener of waitForLog(runtime.events, "SYSTEM", "triggers-parsed").
TriggerLogWaiter(st, el, idx) ==
  IF LevelTypeMatch(el, "SYSTEM", "triggers-parsed") /\ st.rt.parsedIdx = 0
  THEN [st EXCEPT !.rt.parsedIdx = idx]
  ELSE st

\* emitter.emit("log", el): the listeners run in the order they were added:
\* the ready waiter (InvokeRuntime), handleRuntimeLog (display only, no
\* state), the FATAL subscriber, the triggers-parsed waiter.  A listener
\* that throws ends the emit: the listeners after it do not run.
EmitLog(st, el) ==
  LET idx == Len(st.events) + 1
      s0 == [st EXCEPT !.events = Append(st.events, el)]
      s1 == ReadyWaiter(s0, el, idx)
      s2 == FatalSubscriber(s1, el)
  IN IF s2.crashed THEN s2 ELSE TriggerLogWaiter(s2, el, idx)

\* Body of lines.slice(0, -1).forEach: parse, emit, and on FATAL emit the
\* synthetic killed record and signal the worker.
EmitLine(st, line) ==
  LET log == FromJSON(line)
      s1 == EmitLog(st, log)
  IN IF s1.crashed THEN s1
     ELSE IF log.level = "FATAL"
          THEN LET s2 == EmitLog(s1, KilledRec)
               IN [s2 EXCEPT !.rt.kills = s2.rt.kills + 1]
          ELSE s1

RECURSIVE EmitLines(_, _)
EmitLines(st, lines) ==
  IF lines = <<>> \/ st.crashed THEN st
  ELSE EmitLines(EmitLine(st, Head(lines)), Tail(lines))

\* ------------------------------------------------------- the event loop
\* The continuation of an await of the handler is ready to run.
MicrotaskPending ==
  /\ ~gwCrashed
  /\ \/ hpc = "awaitReady" /\ rt.readyIdx # 0
     \/ hpc = "awaitTriggerLog" /\ rt.parsedIdx # 0
     \/ hpc \in {"awaitExitAck", "awaitExitHttp"} /\ rt.exited

\* An I/O callback of the gateway may run.
LoopIdle == ~gwCrashed /\ ~MicrotaskPending

\* ------------------------------------------------------------ handler
\* Lines 155-177: the request is accepted with its buffered body; the body
\* is parsed (JSON.parse throws on a malformed body, which rejects the
\* promise of the async handler: express drops it and nothing is sent);
\* startFunctionRuntime spawns the worker; the FATAL subscriber and the
\* triggers-parsed waiter are attached; the handler awaits runtime.ready.
HandlerStart(name, body) ==
  /\ hpc = "idle"
  /\ reqName' = name
  /\ reqBody' = body
  /\ LET proto == ParseProto(body)
     IN IF ~proto.ok
        THEN /\ hpc' = "rejected"
             /\ UNCHANGED <<bundle, wstate, spawnCount>>
        ELSE /\ bundle' = [triggerId |-> name, proto |-> proto]
             /\ wstate' = "running"
             /\ spawnCount' = spawnCount + 1
             /\ hpc' = "awaitReady"
  /\ UNCHANGED <<invokeMetric, nWritten, buffers, events, rt, ipc, res, gwCrashed>>
  /\ UNCHANGED <<loadVars, runtimeVars>>

\* Lines 177-180: runtime.ready resolved; the handler awaits the
\* triggers-parsed waiter.
HandlerAfterReady ==
  /\ ~gwCrashed
  /\ hpc = "awaitReady"
  /\ rt.readyIdx # 0
  /\ hpc' = "awaitTriggerLog"
  /\ UNCHANGED <<reqName, reqBody, bundle, invokeMetric, wstate, spawnCount,
                 nWritten, buffers, events, rt, ipc, res, gwCrashed>>
  /\ UNCHANGED <<loadVars, runtimeVars>>

\* Lines 251-266: the buffered body is written once and the request ended;
\* req was drained by the body middleware, so req.pipe adds no byte and
\* only ends the (already ended) request again.
ForwardBody(body) ==
  [sent |-> body, writes |-> IF body # <<>> THEN 1 ELSE 0, reqEnded |-> TRUE]

\* Lines 210-216: the client request over the socket of the metadata.
OpenIpc(socketPath, body) ==
  LET f == ForwardBody(body)
  IN [state |-> "open", socketPath |-> socketPath, sent |-> f.sent,
      writes |-> f.writes, reqEnded |-> f.reqEnded, status |-> 0, respPos |-> 0]

\* Lines 180-268: the triggers-parsed record arrived.  The trigger is looked
\* up in its map; trigger.definition of an absent name throws (TypeError),
\* rejecting the handler.  An event trigger awaits exit; an HTTP trigger
\* opens the IPC request, forwards the body and awaits exit.
HandlerAfterTriggerLog ==
  /\ ~gwCrashed
  /\ hpc = "awaitTriggerLog"
  /\ rt.parsedIdx # 0
  /\ IF reqName \notin DOMAIN TriggerMap
     THEN /\ hpc' = "rejected"
          /\ UNCHANGED <<invokeMetric, ipc>>
     ELSE LET def == TriggerMap[reqName]
          IN IF ~def.httpsTrigger
             THEN /\ invokeMetric' = def.service
                  /\ hpc' = "awaitExitAck"
                  /\ UNCHANGED ipc
             ELSE /\ invokeMetric' = "https"
                  /\ ipc' = OpenIpc(rt.socketPath, reqBody)
                  /\ hpc' = "awaitExitHttp"
  /\ UNCHANGED <<reqName, reqBody, bundle, wstate, spawnCount, nWritten, buffers,
                 events, rt, res, gwCrashed>>
  /\ UNCHANGED <<loadVars, runtimeVars>>

\* Lines 196-197: the worker exited; res.json acknowledges.  res.json sets
\* headers, which throws (rejecting the handler) once they have been sent.
HandlerAfterExitAck ==
  /\ ~gwCrashed
  /\ hpc = "awaitExitAck"
  /\ rt.exited
  /\ IF res.headersSent
     THEN hpc' = "rejected" /\ UNCHANGED res
     ELSE hpc' = "returned" /\ res' = ResSend(res, AckBody)
  /\ UNCHANGED <<reqName, reqBody, bundle, invokeMetric, wstate, spawnCount,
                 nWritten, buffers, events, rt, ipc, gwCrashed>>
  /\ UNCHANGED <<loadVars, runtimeVars>>

\* Line 268: the worker exited; the HTTP handler returns.
HandlerAfterExitHttp ==
  /\ ~gwCrashed
  /\ hpc = "awaitExitHttp"
  /\ rt.exited
  /\ hpc' = "returned"
  /\ UNCHANGED <<reqName, reqBody, bundle, invokeMetric, wstate, spawnCount,
                 nWritten, buffers, events, rt, ipc, res, gwCrashed>>
  /\ UNCHANGED <<loadVars, runtimeVars>>

\* ------------------------------------------------------------- worker
\* A worker writes one JSON text per line: in a pipe's stream the texts and
\* the newlines alternate.  A chunk boundary may fall anywhere.
LineProtocol(stream) ==
  \A i \in 1..Len(stream) : (stream[i] = NL) <=> (i % 2 = 0)

TextCount(chunk) == Cardinality({i \in 1..Len(chunk) : chunk[i] # NL})

AllChunks == SeqsUpTo(WorkerTexts \cup {NL}, MaxChunk) \ {<<>>}

\* The worker may write chunk c on pipe p now.
WorkerMayWrite(p, c) ==
  /\ LineProtocol(buffers[p] \o c)
  /\ nWritten + TextCount(c) <= MaxLines

\* Lines 704-724: the "data" callback of one pipe.  When a listener throws,
\* the exception leaves the callback before the buffer is cut back to the
\* trailing partial line.
PipeData(p, chunk) ==
  /\ LoopIdle
  /\ wstate = "running"
  /\ WorkerMayWrite(p, chunk)
  /\ LET value == buffers[p] \o chunk
         lines == SplitLines(value)
         st == EmitLines(EmitState, AllButLast(lines))
     IN /\ events' = st.events
        /\ rt' = st.rt
        /\ res' = st.res
        /\ gwCrashed' = st.crashed
        /\ buffers' = [buffers EXCEPT ![p] = IF st.crashed THEN value ELSE lines[Len(lines)]]
  /\ nWritten' = nWritten + TextCount(chunk)
  /\ UNCHANGED <<hpc, reqName, reqBody, bundle, invokeMetric, wstate, spawnCount, ipc>>
  /\ UNCHANGED <<loadVars, runtimeVars>>

\* Lines 735-737: the worker process exits (on its own or from a signal);
\* the "exit" callback resolves runtime.exit with the code.
WorkerExit(code) ==
  /\ ~MicrotaskPending
  /\ wstate = "running"
  /\ wstate' = "exited"
  /\ rt' = IF gwCrashed THEN rt ELSE [rt EXCEPT !.exited = TRUE, !.exitCode = code]
  /\ UNCHANGED <<hpc, reqName, reqBody, bundle, invokeMetric, spawnCount, nWritten,
                 buffers, events, ipc, res, gwCrashed>>
  /\ UNCHANGED <<loadVars, runtimeVars>>

\* ----------------------------------------------- worker's IPC response
\* The status code of the worker's response, fixed by its first event.
ResponseStatusChoices == IF ipc.state = "open" THEN WorkerStatusCodes ELSE {ipc.status}

\* Lines 230-233: a "data" event of runtimeRes.  The worker of the HTTP
\* trigger answers with the bytes it received.  res.write on an ended
\* response raises an "error" event nobody listens to.
RuntimeResData(n, sc) ==
  /\ LoopIdle
  /\ ipc.state \in {"open", "streaming"}
  /\ sc \in ResponseStatusChoices
  /\ n \in 1..(Len(ipc.sent) - ipc.respPos)
  /\ LET buf == SubSeq(ipc.sent, ipc.respPos + 1, ipc.respPos + n)
         r1 == ForwardStatusAndHeaders(res, sc, WorkerHeaders)
     IN IF r1.ended
        THEN res' = r1 /\ gwCrashed' = TRUE
        ELSE res' = ResWrite(r1, buf) /\ gwCrashed' = FALSE
  /\ ipc' = [ipc EXCEPT !.state = "streaming", !.status = sc, !.respPos = ipc.respPos + n]
  /\ UNCHANGED <<hpc, reqName, reqBody, bundle, invokeMetric, wstate, spawnCount,
                 nWritten, buffers, events, rt>>
  /\ UNCHANGED <<loadVars, runtimeVars>>

\* Lines 240-243: the "end" event of runtimeRes, after the last byte.
RuntimeResEnd(sc) ==
  /\ LoopIdle
  /\ ipc.state \in {"open", "streaming"}
  /\ sc \in ResponseStatusChoices
  /\ ipc.respPos = Len(ipc.sent)
  /\ res' = ResEnd(ForwardStatusAndHeaders(res, sc, WorkerHeaders))
  /\ ipc' = [ipc EXCEPT !.state = "ended", !.status = sc]
  /\ UNCHANGED <<hpc, reqName, reqBody, bundle, invokeMetric, wstate, spawnCount,
                 nWritten, buffers, events, rt, gwCrashed>>
  /\ UNCHANGED <<loadVars, runtimeVars>>

\* Lines 235-238: the "close" event of runtimeRes: after "end", or alone
\* when the connection is cut while the response is under way.
RuntimeResClose(sc) ==
  /\ LoopIdle
  /\ ipc.state \in {"open", "streaming", "ended"}
  /\ sc \in ResponseStatusChoices
  /\ res' = ResEnd(ForwardStatusAndHeaders(res, sc, WorkerHeaders))
  /\ ipc' = [ipc EXCEPT !.state = "closed", !.status = sc]
  /\ UNCHANGED <<hpc, reqName, reqBody, bundle, invokeMetric, wstate, spawnCount,
                 nWritten, buffers, events, rt, gwCrashed>>
  /\ UNCHANGED <<loadVars, runtimeVars>>

\* Lines 247-249: the "error" event of runtimeReq: no response arrived.
RuntimeReqError ==
  /\ LoopIdle
  /\ ipc.state = "open"
  /\ res' = ResEnd(res)
  /\ ipc' = [ipc EXCEPT !.state = "error"]
  /\ UNCHANGED <<hpc, reqName, reqBody, bundle, invokeMetric, wstate, spawnCount,
                 nWritten, buffers, events, rt, gwCrashed>>
  /\ UNCHANGED <<loadVars, runtimeVars>>

NextInvoke ==
  \/ \E name \in RequestNames, body \in Bodies : HandlerStart(name, body)
  \/ HandlerAfterReady
  \/ HandlerAfterTriggerLog
  \/ HandlerAfterExitAck
  \/ HandlerAfterExitHttp
  \/ \E p \in Pipes, chunk \in AllChunks : PipeData(p, chunk)
  \/ \E code \in ExitCodes : WorkerExit(code)
  \/ \E n \in 1..MaxBodyLen, sc \in WorkerStatusCodes : RuntimeResData(n, sc)
  \/ \E sc \in WorkerStatusCodes : RuntimeResEnd(sc)
  \/ \E sc \in WorkerStatusCodes : RuntimeResClose(sc)
  \/ RuntimeReqError

SpecInvoke == Init /\ [][NextInvoke]_vars

\* ========================================================== the loader
\* triggerDefinitions of a diagnostic worker's triggers-parsed record: the
\* definitions of the project as the worker found them, by name, no name
\* twice.
DefLists ==
  {d \in SeqsUpTo(TriggerNames, MaxDefs) : \A i, j \in 1..Len(d) : i # j => d[i] # d[j]}

\* Bodies the firestore emulator may answer a registration with.
PutBodies == {<<"{", "}">>, <<"1">>, <<"h">>}

\* A filter that lets every definition through.
ToSetupAll(defs, known) == defs

RECURSIVE ToSetup(_, _)
\* triggerDefinitions.filter(definition => !known[definition.name])
ToSetup(defs, known) ==
  IF defs = <<>> THEN <<>>
  ELSE (IF Head(defs) \in known THEN <<>> ELSE <<Head(defs)>>) \o ToSetup(Tail(defs), known)

\* One entry of setupLog: what run i did for the trigger name, and whether
\* the name was in knownTriggerIDs at that moment.
SetupEntry(i, name, kind, known) ==
  [load |-> i, name |-> name, kind |-> kind, known |-> name \in known]

\* Line 482: this.knownTriggerIDs[definition.name] = true.
MarkKnown(st, name) ==
  [st EXCEPT !.known = st.known \cup {name},
             !.assigns = [st.assigns EXCEPT ![name] = st.assigns[name] + 1]]

\* Lines 452-483: the for loop of loadTriggers from index k on, up to the
\* await of a registration whose PUT is on its way, or to the end.  st
\* holds knownTriggerIDs, setupLog, assigns, and the run's pc and index.
RECURSIVE SetupLoop(_, _, _, _, _)
SetupLoop(st, i, toSetup, k, port) ==
  IF k > Len(toSetup) THEN [st EXCEPT !.pc = "done", !.idx = k]
  ELSE
    LET name == toSetup[k]
        def == TriggerMap[name]
    IN IF def.httpsTrigger
       THEN SetupLoop(MarkKnown([st EXCEPT !.log = Append(st.log,
                                   SetupEntry(i, name, "url", st.known))], name),
                      i, toSetup, k + 1, port)
       ELSE IF def.service = "firestore"
       THEN IF ~port
            THEN \* addFirestoreTrigger returns a resolved promise (line 502)
                 SetupLoop(MarkKnown([st EXCEPT !.log = Append(st.log,
                                         SetupEntry(i, name, "noport", st.known))], name),
                           i, toSetup, k + 1, port)
            ELSE \* request.put is under way (line 514)
                 [st EXCEPT !.log = Append(st.log, SetupEntry(i, name, "put", st.known)),
                            !.pc = "awaitPut", !.idx = k]
       ELSE SetupLoop(MarkKnown([st EXCEPT !.log = Append(st.log,
                                   SetupEntry(i, name, "unsupported", st.known))], name),
                      i, toSetup, k + 1, port)

LoopState(i) ==
  [known |-> knownTriggerIDs, log |-> setupLog, assigns |-> assigns,
   pc |-> loads[i].pc, idx |-> loads[i].idx]

\* Lines 436-442: loadTriggers spawns a diagnostic worker and awaits its
\* triggers-parsed record.  by is who called loadTriggers.
StartLoad(by) ==
  /\ nLoads < MaxLoads
  /\ nLoads' = nLoads + 1
  /\ loads' = [loads EXCEPT ![nLoads + 1] =
                 [pc |-> "awaitParsed", toSetup |-> <<>>, idx |-> 0, before |-> <<>>,
                  port |-> FALSE]]
  /\ diag' = [diag EXCEPT ![nLoads + 1] = "running"]
  /\ spawnLog' = Append(spawnLog, [by |-> by, sinceChange |-> sinceChange])

\* Lines 410-493: connect() installs the watcher and runs the first load
\* by calling loadTriggers itself (line 492).
Connect ==
  /\ ~gwCrashed
  /\ ~connected
  /\ connected' = TRUE
  /\ StartLoad("connect")
  /\ UNCHANGED <<triggers, knownTriggerIDs, timerPending, firestorePort, setupLog, assigns>>
  /\ UNCHANGED debounceVars
  /\ UNCHANGED <<invokeVars, runtimeVars>>

\* The timer of the debounce is due: its callback runs before any I/O.
TimerDue == timerPending /\ timerLeft = 0

\* Lines 487-490: a watched file changed.  debouncedLoadTriggers() notes
\* the time of the call and starts the timer unless one is running.
FileChange ==
  /\ ~gwCrashed
  /\ connected
  /\ ~TimerDue
  /\ nLoads < MaxLoads
  /\ nChanges < MaxChanges
  /\ nChanges' = nChanges + 1
  /\ nBursts' = IF nChanges = 0 \/ sinceChange >= DebounceWait THEN nBursts + 1 ELSE nBursts
  /\ sinceChange' = 0
  /\ timerPending' = TRUE
  /\ timerLeft' = IF timerPending THEN timerLeft ELSE DebounceWait
  /\ UNCHANGED <<triggers, knownTriggerIDs, connected, nLoads, loads, diag,
                 firestorePort, setupLog, assigns, spawnLog>>
  /\ UNCHANGED <<invokeVars, runtimeVars>>

\* A quarter second passes while the timer of the debounce runs.
Tick ==
  /\ timerPending
  /\ timerLeft > 0
  /\ timerLeft' = timerLeft - 1
  /\ sinceChange' = IF sinceChange < DebounceWait THEN sinceChange + 1 ELSE sinceChange
  /\ UNCHANGED <<triggers, knownTriggerIDs, connected, timerPending, nLoads, loads,
                 diag, firestorePort, setupLog, assigns, nChanges, nBursts, spawnLog>>
  /\ UNCHANGED <<invokeVars, runtimeVars>>

\* A debounce whose timer runs loadTriggers whenever it expires.
DebounceFireOnExpiry ==
  /\ ~gwCrashed
  /\ TimerDue
  /\ timerPending' = FALSE
  /\ StartLoad("debounce")
  /\ UNCHANGED <<triggers, knownTriggerIDs, connected, firestorePort, setupLog, assigns>>
  /\ UNCHANGED debounceVars
  /\ UNCHANGED <<invokeVars, runtimeVars>>

\* Line 486: the timer expires before the wait has passed since the last
\* call: it is started again for the rest of the wait.
DebounceRearm ==
  /\ ~gwCrashed
  /\ TimerDue
  /\ sinceChange < DebounceWait
  /\ timerLeft' = DebounceWait - sinceChange
  /\ UNCHANGED <<triggers, knownTriggerIDs, connected, timerPending, nLoads, loads,
                 diag, firestorePort, setupLog, assigns, sinceChange, nChanges,
                 nBursts, spawnLog>>
  /\ UNCHANGED <<invokeVars, runtimeVars>>

\* Line 486: the timer expires with the wait passed since the last call
\* (trailing edge): loadTriggers runs.
DebounceFire ==
  /\ ~gwCrashed
  /\ TimerDue
  /\ sinceChange >= DebounceWait
  /\ timerPending' = FALSE
  /\ StartLoad("debounce")
  /\ UNCHANGED <<triggers, knownTriggerIDs, connected, firestorePort, setupLog, assigns>>
  /\ UNCHANGED debounceVars
  /\ UNCHANGED <<invokeVars, runtimeVars>>

\* Lines 442-483: the triggers-parsed record of run i's worker arrives:
\* toSetup is filtered, this.triggers replaced, and the loop runs up to
\* its first pending registration.
LoadParsed(i, defs) ==
  /\ ~gwCrashed
  /\ loads[i].pc = "awaitParsed"
  /\ diag[i] = "running"
  /\ LET toSetup == ToSetup(defs, knownTriggerIDs)
         st == SetupLoop(LoopState(i), i, toSetup, 1, firestorePort)
     IN /\ triggers' = defs
        /\ knownTriggerIDs' = st.known
        /\ setupLog' = st.log
        /\ assigns' = st.assigns
        /\ loads' = [loads EXCEPT ![i] = [pc |-> st.pc, toSetup |-> toSetup,
                                          idx |-> st.idx, before |-> triggers,
                                          port |-> firestorePort]]
  /\ UNCHANGED <<connected, timerPending, nLoads, diag, firestorePort, spawnLog>>
  /\ UNCHANGED debounceVars
  /\ UNCHANGED <<invokeVars, runtimeVars>>

\* Line 528: JSON.stringify(JSON.parse(body)) === "{}".
IsEmptyObject(parsed) == parsed.kind = "object"

\* Lines 521-537: the callback of request.put.  An error is logged at WARN
\* and rejects, which throws out of loadTriggers at its await; otherwise
\* the body is parsed (JSON.parse throws on a body that is not JSON, out of
\* the callback: setupLog notes "parse-throw"), SUCCESS is logged for {}
\* (setupLog notes "ignored" for any other value) and the promise
\* resolves: the name is marked known and the loop goes on.
PutDone(i, err, body) ==
  /\ ~gwCrashed
  /\ loads[i].pc = "awaitPut"
  /\ IF err
     THEN /\ loads' = [loads EXCEPT ![i].pc = "failed"]
          /\ setupLog' = Append(setupLog, SetupEntry(i, loads[i].toSetup[loads[i].idx],
                                                     "warn", knownTriggerIDs))
          /\ UNCHANGED <<knownTriggerIDs, assigns, gwCrashed>>
     ELSE IF ~JsonParse(body).ok
     THEN /\ gwCrashed' = TRUE
          /\ setupLog' = Append(setupLog, SetupEntry(i, loads[i].toSetup[loads[i].idx],
                                                     "parse-throw", knownTriggerIDs))
          /\ UNCHANGED <<loads, knownTriggerIDs, assigns>>
     ELSE LET name == loads[i].toSetup[loads[i].idx]
              answered == [LoopState(i) EXCEPT !.log = Append(setupLog,
                             SetupEntry(i, name,
                                        IF IsEmptyObject(JsonParse(body)) THEN "success"
                                        ELSE "ignored",
                                        knownTriggerIDs))]
              st == SetupLoop(MarkKnown(answered, name),
                              i, loads[i].toSetup, loads[i].idx + 1, firestorePort)
          IN /\ knownTriggerIDs' = st.known
             /\ setupLog' = st.log
             /\ assigns' = st.assigns
             /\ loads' = [loads EXCEPT ![i].pc = st.pc, ![i].idx = st.idx]
             /\ UNCHANGED gwCrashed
  /\ UNCHANGED <<triggers, connected, timerPending, nLoads, diag, firestorePort, spawnLog>>
  /\ UNCHANGED debounceVars
  /\ UNCHANGED <<hpc, reqName, reqBody, bundle, invokeMetric, wstate, spawnCount,
                 nWritten, buffers, events, rt, ipc, res>>
  /\ UNCHANGED runtimeVars

\* The diagnostic worker of run i exits.
DiagExit(i) ==
  /\ diag[i] = "running"
  /\ diag' = [diag EXCEPT ![i] = "exited"]
  /\ UNCHANGED <<triggers, knownTriggerIDs, connected, timerPending, nLoads, loads,
                 firestorePort, setupLog, assigns, spawnLog>>
  /\ UNCHANGED debounceVars
  /\ UNCHANGED <<invokeVars, runtimeVars>>

\* The firestore emulator starts: the registry knows its port from now on.
FirestoreStarts ==
  /\ ~firestorePort
  /\ firestorePort' = TRUE
  /\ UNCHANGED <<triggers, knownTriggerIDs, connected, timerPending, nLoads, loads,
                 diag, setupLog, assigns, spawnLog>>
  /\ UNCHANGED debounceVars
  /\ UNCHANGED <<invokeVars, runtimeVars>>

NextReload ==
  \/ Connect
  \/ FileChange
  \/ Tick
  \/ DebounceRearm
  \/ DebounceFire
  \/ \E i \in Loads, defs \in DefLists : LoadParsed(i, defs)
  \/ \E i \in Loads, err \in BOOLEAN, body \in PutBodies : PutDone(i, err, body)
  \/ \E i \in Loads : DiagExit(i)
  \/ FirestoreStarts

SpecReload == Init /\ [][NextReload]_vars

\* The watcher, the debounce and the diagnostic workers alone: the runs of
\* loadTriggers stay at their await of the triggers-parsed record.
NextDebounce ==
  \/ Connect
  \/ FileChange
  \/ Tick
  \/ DebounceRearm
  \/ DebounceFire
  \/ \E i \in Loads : DiagExit(i)

SpecDebounce == Init /\ [][NextDebounce]_vars

\* The loader with registrations that are answered well: no error and a
\* JSON body.
NextRegister ==
  \/ Connect
  \/ FileChange
  \/ Tick
  \/ DebounceRearm
  \/ DebounceFire
  \/ \E i \in Loads, defs \in DefLists : LoadParsed(i, defs)
  \/ \E i \in Loads : PutDone(i, FALSE, <<"{", "}">>)
  \/ FirestoreStarts

SpecRegister == Init /\ [][NextRegister]_vars

\* ================================================ a Runtime on its own
\* The Runtime that loadTriggers makes (lines 436-442): InvokeRuntime with
\* the diagnostic bundle, the display listener and the triggers-parsed
\* waiter; none of its listeners throws.  Here a pipe carries any symbols:
\* a line may be empty or made of several texts run together.
StreamSymbols == {NL, ReadyRec("/tmp/w1.sock"), ParsedRec, FatalRec}
StreamChunks == SeqsUpTo(StreamSymbols, MaxChunk) \ {<<>>}

\* One entry of rtLog.
LogEntry(from, line, rec) == [from |-> from, line |-> line, rec |-> rec, proc |-> rtProc]

\* emitter.emit("log", rec) on this Runtime: the ready waiter (lines
\* 728-732), handleRuntimeLog (display only), the triggers-parsed waiter.
RtEmit(st, from, line, rec) ==
  LET idx == Len(st.log) + 1
  IN [st EXCEPT
        !.log = Append(st.log, LogEntry(from, line, rec)),
        !.waiters.readyIdx =
           IF LevelTypeMatch(rec, "SYSTEM", "runtime-status") /\ ReadyFilter(rec)
              /\ st.waiters.readyIdx = 0
           THEN idx ELSE st.waiters.readyIdx,
        !.waiters.parsedIdx =
           IF LevelTypeMatch(rec, "SYSTEM", "triggers-parsed") /\ st.waiters.parsedIdx = 0
           THEN idx ELSE st.waiters.parsedIdx]

\* Lines 709-720: the forEach over the complete lines of pipe p.
RECURSIVE RtEmitLines(_, _, _)
RtEmitLines(st, p, lines) ==
  IF lines = <<>> THEN st
  ELSE LET log == FromJSON(Head(lines))
           s1 == RtEmit(st, p, Head(lines), log)
           s2 == IF log.level = "FATAL"
                 THEN [RtEmit(s1, "fatal", <<>>, KilledRec) EXCEPT !.signals = s1.signals + 1]
                 ELSE s1
       IN RtEmitLines(s2, p, Tail(lines))

RtState == [log |-> rtLog, waiters |-> rtWaiters, signals |-> rtSignals]

\* Lines 436-442 and 674-746: the Runtime is made and its listeners and
\* waiter are attached, all before any callback can run.
RuntimeInvoke ==
  /\ rtProc = "none"
  /\ rtProc' = "running"
  /\ workerEnv' = SpawnEnv(NodeBinary, optsEnv, processEnv)
  /\ UNCHANGED <<rtBuffers, rtWritten, rtLog, rtWaiters, rtSignals, rtKillCalls,
                 processEnv, optsEnv>>
  /\ UNCHANGED <<invokeVars, loadVars>>

\* Lines 704-724: the "data" callback of pipe p.
RuntimePipeData(p, chunk) ==
  /\ rtProc = "running"
  /\ Len(rtWritten["stdout"]) + Len(rtWritten["stderr"]) + Len(chunk) <= MaxStream
  /\ LET value == rtBuffers[p] \o chunk
         lines == SplitLines(value)
         st == RtEmitLines(RtState, p, AllButLast(lines))
     IN /\ rtLog' = st.log
        /\ rtWaiters' = st.waiters
        /\ rtSignals' = st.signals
        /\ rtBuffers' = [rtBuffers EXCEPT ![p] = lines[Len(lines)]]
  /\ rtWritten' = [rtWritten EXCEPT ![p] = rtWritten[p] \o chunk]
  /\ UNCHANGED <<rtProc, rtKillCalls, processEnv, optsEnv, workerEnv>>
  /\ UNCHANGED <<invokeVars, loadVars>>

\* Lines 741-744: kill() of the handle: the worker is signalled and a killed
\* record is emitted, whatever the state of the worker.
RuntimeKill ==
  /\ rtProc # "none"
  /\ rtKillCalls < MaxKillCalls
  /\ rtKillCalls' = rtKillCalls + 1
  /\ LET st == RtEmit(RtState, "kill", <<>>, KilledRec)
     IN /\ rtLog' = st.log
        /\ rtWaiters' = st.waiters
  /\ rtSignals' = rtSignals + 1
  /\ UNCHANGED <<rtProc, rtBuffers, rtWritten, processEnv, optsEnv, workerEnv>>
  /\ UNCHANGED <<invokeVars, loadVars>>

\* Lines 735-737: the worker exits, by itself or from a signal.
RuntimeExit ==
  /\ rtProc = "running"
  /\ rtProc' = "exited"
  /\ UNCHANGED <<rtBuffers, rtWritten, rtLog, rtWaiters, rtSignals, rtKillCalls,
                 processEnv, optsEnv, workerEnv>>
  /\ UNCHANGED <<invokeVars, loadVars>>

NextRuntime ==
  \/ RuntimeInvoke
  \/ \E p \in Pipes, chunk \in StreamChunks : RuntimePipeData(p, chunk)
  \/ RuntimeKill
  \/ RuntimeExit

SpecRuntime == Init /\ [][NextRuntime]_vars

\* InvokeRuntime called with any opts.env under any process.env; the pipes
\* stay silent.
InitSpawn ==
  /\ InitInvoke
  /\ InitLoad
  /\ InitRuntime
  /\ processEnv \in Envs
  /\ optsEnv \in Envs

NextSpawn ==
  \/ RuntimeInvoke
  \/ RuntimeKill
  \/ RuntimeExit

SpecSpawn == InitSpawn /\ [][NextSpawn]_vars

Next == NextInvoke \/ NextReload \/ NextRuntime

Spec == Init /\ [][Next]_vars

\* =============================================================== claims
\* No callback of the invocation can run any more: the request was taken,
\* the worker is gone, no continuation is pending and the IPC exchange is
\* over (or the gateway itself is down).
InvocationQuiescent ==
  /\ hpc # "idle"
  /\ wstate # "running"
  /\ ~MicrotaskPending
  /\ gwCrashed \/ ipc.state \in {"none", "closed", "error"}

IsReady(el) == LevelTypeMatch(el, "SYSTEM", "runtime-status") /\ ReadyFilter(el)
IsParsed(el) == LevelTypeMatch(el, "SYSTEM", "triggers-parsed")
IsFatal(el) == el.level = "FATAL"
ReadyIdxs == {i \in 1..Len(events) : IsReady(events[i])}
ParsedIdxs == {i \in 1..Len(events) : IsParsed(events[i])}
FatalIdxs == {i \in 1..Len(events) : IsFatal(events[i])}
EventTriggerNames == {n \in TriggerNames : ~TriggerMap[n].httpsTrigger}
HttpTriggerNames == {n \in TriggerNames : TriggerMap[n].httpsTrigger}

\* C1: for a request to a valid HTTP trigger, whatever the worker does, at
\* most one worker is spawned, the response is never ended twice, and once
\* the worker is gone and nothing is left to run exactly one response has
\* been ended.
C1_ExactlyOneResponse ==
  reqName \in HttpTriggerNames =>
    /\ spawnCount <= 1
    /\ res.ends <= 1
    /\ (wstate = "exited" /\ InvocationQuiescent) => res.ends = 1

\* C2: for an event-trigger invocation (whose worker wrote no FATAL line),
\* a reply is only ever the 200 acknowledgement and is sent only after the
\* worker exited; and once the worker has exited, before or after ready,
\* and nothing is left to run, the acknowledgement has been sent.
C2_AckIffExited ==
  (reqName \in EventTriggerNames /\ FatalIdxs = {}) =>
    /\ res.headersSent =>
         (rt.exited /\ res.ended /\ res.wireStatus = 200 /\ res.body = AckBody)
    /\ (wstate = "exited" /\ InvocationQuiescent) => (res.ended /\ res.body = AckBody)

\* C3: the IPC request exists only after the ready waiter resolved, it
\* goes to the socketPath of the ready record that resolved it, and that
\* path is in the metadata from the moment the await on ready has resumed.
C3_IpcAfterReady ==
  /\ ipc.state # "none" =>
       /\ rt.readyIdx \in 1..Len(events)
       /\ IsReady(events[rt.readyIdx])
       /\ ipc.socketPath = events[rt.readyIdx].sock
  /\ hpc \in {"awaitTriggerLog", "awaitExitAck", "awaitExitHttp", "returned"} =>
       /\ rt.readyIdx \in 1..Len(events)
       /\ rt.socketPath = events[rt.readyIdx].sock

\* C3 witness: the IPC request is open after the worker announced two
\* different socket paths.
C3_Witness ==
  /\ ipc.state = "open"
  /\ \E i, j \in ReadyIdxs : i < j /\ events[i].sock # events[j].sock

\* C4 (for the first FATAL record of a worker): once a FATAL record is on
\* the event stream, the worker has been signalled and a killed record sits
\* after the FATAL record on the stream.
C4_FatalKillsWorker ==
  FatalIdxs # {} =>
    LET f == CHOOSE i \in FatalIdxs : \A j \in FatalIdxs : i <= j
    IN /\ rt.kills >= 1
       /\ \E k \in (f + 1)..Len(events) : events[k] = KilledRec

\* C5: once the handler has looked up a name that is absent from the map of
\* the triggers-parsed record, the response is ended with a 5xx status.
C5_UnknownTrigger5xx ==
  (reqName \notin DOMAIN TriggerMap /\ rt.parsedIdx # 0
     /\ hpc \notin {"idle", "awaitReady", "awaitTriggerLog"}) =>
    (res.ended /\ res.wireStatus \in 500..599)

\* The worker of an echo trigger played its part: it wrote no FATAL line
\* and, if it was spawned, it answered the IPC request to the end.
EchoWorkerDone ==
  /\ FatalIdxs = {}
  /\ spawnCount > 0 => (ipc.state = "closed" /\ ipc.respPos = Len(ipc.sent))

\* C6: round trip of an echo HTTP trigger: for every request body, JSON or
\* not, when the exchange is over the worker has received exactly the body
\* bytes, once, and the response body equals the request body.
C6_EchoRoundTrip ==
  (reqName = "echo" /\ InvocationQuiescent /\ EchoWorkerDone) =>
    /\ ipc.sent = reqBody
    /\ ipc.writes <= 1
    /\ res.ended
    /\ res.body = reqBody

\* C7: a request to an event trigger with a non-empty body that is not
\* JSON is answered: the response is ended with a 4xx status.
C7_BadPayload4xx ==
  (reqName \in EventTriggerNames /\ reqBody # <<>> /\ ~JsonParse(reqBody).ok) =>
    (res.ended /\ res.wireStatus \in 400..499)

\* C8: when the worker has exited without a ready record, the handler is
\* no longer waiting on ready and has answered with a 5xx status.
C8_ExitBeforeReadyFails ==
  (wstate = "exited" /\ ReadyIdxs = {} /\ LoopIdle) =>
    /\ hpc # "awaitReady"
    /\ res.ended /\ res.wireStatus \in 500..599

\* C9: a waiter that resolved did so with the first matching record; and
\* when the worker has exited and no matching record ever came, the waiter
\* is settled (with a failure), not pending.
C9_WaitForLog ==
  /\ rt.parsedIdx # 0 =>
       (rt.parsedIdx \in ParsedIdxs /\ \A i \in ParsedIdxs : rt.parsedIdx <= i)
  /\ rt.readyIdx # 0 =>
       (rt.readyIdx \in ReadyIdxs /\ \A i \in ReadyIdxs : rt.readyIdx <= i)
  /\ (wstate = "exited" /\ ParsedIdxs = {} /\ LoopIdle) => rt.parsedIdx # 0

\* C10: across all reloads, a trigger is handled (URL announced, registrar
\* invoked) only while its name is not in knownTriggerIDs, its name is put
\* into knownTriggerIDs once, and a name put there stays there.
C10_SetUpAtMostOnce ==
  /\ \A k \in 1..Len(setupLog) :
       setupLog[k].kind \in {"url", "put", "noport"} => ~setupLog[k].known
  /\ \A n \in TriggerNames : assigns[n] <= 1
  /\ \A n \in TriggerNames : assigns[n] >= 1 => n \in knownTriggerIDs

\* Diagnostic workers spawned by the debounce.
DebouncedSpawns == Cardinality({k \in 1..Len(spawnLog) : spawnLog[k].by = "debounce"})

C12_PutErrorDoesNotAbort ==
  \A k \in 1..Len(setupLog) :
    setupLog[k].kind = "warn" => loads[setupLog[k].load].pc # "failed"

\* C17: at most one diagnostic worker is running.
C17_OneDiagnosticWorker ==
  Cardinality({i \in Loads : diag[i] = "running"}) <= 1

\* C18: when a run of loadTriggers has failed, and no other run has got
\* its triggers-parsed record, this.triggers is what it was before the run.
C18_FailedLoadKeepsTable ==
  \A i \in Loads :
    (/\ loads[i].pc = "failed"
     /\ \A j \in Loads \ {i} : loads[j].pc \in {"unused", "awaitParsed"})
      => triggers = loads[i].before

\* C13 (for a worker that wrote no FATAL line): a request to a trigger
\* that is present but not supported is never answered with anything but
\* a 5xx status, never with the acknowledgement, and is answered once the
\* handler got both records and the worker is gone.
C13_UnsupportedTrigger5xx ==
  (/\ reqName \in DOMAIN TriggerMap
   /\ ~IsTriggerSupported(TriggerMap[reqName])
   /\ FatalIdxs = {}) =>
    /\ res.ended => (res.wireStatus \in 500..599 /\ res.body # AckBody)
    /\ (InvocationQuiescent /\ rt.readyIdx # 0 /\ rt.parsedIdx # 0) => res.ended

\* C15: once a FATAL record is on the event stream, its text is in the
\* body of the response, the response is ended (once), and the gateway is
\* still up: also for a FATAL record after the response has begun, for a
\* second FATAL record, and for event triggers.
C15_FatalTextInBody ==
  FatalIdxs # {} =>
    /\ ~gwCrashed
    /\ res.ended /\ res.ends = 1
    /\ \E i \in 1..Len(res.body) : res.body[i] = FatalRec.text

\* The worker's response has produced an event (data, end or close).
WorkerResponseSeen == ipc.state \in {"streaming", "ended", "closed"}
ForwardedStatus == IF ipc.status # 0 THEN ipc.status ELSE 200

NLPos(stream) == {i \in 1..Len(stream) : stream[i] = NL}
NthNL(stream, k) ==
  IF k = 0 THEN 0
  ELSE CHOOSE i \in NLPos(stream) : Cardinality({j \in NLPos(stream) : j < i}) = k - 1

\* The newline-terminated lines of a whole stream, in order, and the bytes
\* after its last newline.
TerminatedLines(stream) ==
  [k \in 1..Cardinality(NLPos(stream)) |->
     SubSeq(stream, NthNL(stream, k - 1) + 1, NthNL(stream, k) - 1)]
Unterminated(stream) ==
  SubSeq(stream, NthNL(stream, Cardinality(NLPos(stream))) + 1, Len(stream))

\* The entries of rtLog that came from a line of pipe p, in order.
EmittedFrom(p) == SelectSeq(rtLog, LAMBDA e : e.from = p)

C16_KillIdempotent ==
  \A j \in 1..Len(rtLog) :
    rtLog[j].from = "kill" =>
      /\ rtLog[j].proc = "running"
      /\ \A i \in 1..(j - 1) : rtLog[i].rec # KilledRec

\* C21: when the firestore emulator has answered a registration with a
\* body other than {}, JSON or not, the gateway is up and the registration
\* is complete: the trigger is in knownTriggerIDs; and no SUCCESS is
\* logged for it by that answer.
C21_OtherBodyIgnored ==
  \A k \in 1..Len(setupLog) :
    setupLog[k].kind \in {"ignored", "parse-throw"} =>
      /\ ~gwCrashed
      /\ setupLog[k].name \in knownTriggerIDs

\* C23: a firestore trigger that a run found while the port of the
\* firestore emulator was unknown was not registered by that run, is in
\* knownTriggerIDs, and is never registered afterwards: no PUT for it
\* follows, whether or not the port has become known.
C23_NoPortNeverRegistered ==
  \A k \in 1..Len(setupLog) :
    setupLog[k].kind = "noport" =>
      /\ setupLog[k].name \in knownTriggerIDs
      /\ \A j \in (k + 1)..Len(setupLog) :
           setupLog[j].name = setupLog[k].name => setupLog[j].kind = "noport"

\* C23 witness: a run found the firestore trigger without the port; a
\* later run, with the port known, found it again and has finished.
C23_Witness ==
  \E k \in 1..Len(setupLog), i \in Loads :
    /\ setupLog[k].kind = "noport"
    /\ i > setupLog[k].load
    /\ loads[i].pc = "done"
    /\ loads[i].port
    /\ \E n \in 1..Len(triggers) : triggers[n] = setupLog[k].name
    /\ \E n \in 1..Len(loads[i].before) : loads[i].before[n] = setupLog[k].name

\* C22: the env given to the spawned worker has the keys of process.env,
\* of opts.env and the key node; for each key the value is that of
\* opts.env where opts.env has the key, else that of process.env, else
\* (the key node) the node binary.
C22_EnvOverridesWin ==
  rtProc # "none" =>
    /\ DOMAIN workerEnv = DOMAIN processEnv \cup DOMAIN optsEnv \cup {"node"}
    /\ \A k \in DOMAIN workerEnv :
         workerEnv[k] = IF k \in DOMAIN optsEnv THEN optsEnv[k]
                        ELSE IF k \in DOMAIN processEnv THEN processEnv[k]
                        ELSE NodeBinary

====
